---- MODULE Spec2Model ----
(***************************************************************************)
(* Model of mymcp.py, the "Weather & Stock Data Server": six tools that    *)
(* each validate their arguments, issue one upstream call and turn the     *)
(* answer (or the exception) into the string they return.                  *)
(*                                                                         *)
(* Text is a sequence of tokens: the fixed parts of an f-string are one    *)
(* token each, a caller-supplied string (symbol, location, query) is one   *)
(* token per character, so "contains" is contiguous-subsequence search.    *)
(* A JSON object / dict is the set of keys it carries plus the values      *)
(* the model needs; dict.get(k, d) is Get below.                          *)
(***************************************************************************)
EXTENDS Integers, Sequences, FiniteSets, TLC

VARIABLES call, upstream, pc, sent, result, raised, before

vars == <<call, upstream, pc, sent, result, raised, before>>

(***************************************************************************)
(* Bounds of the model.                                                    *)
(***************************************************************************)
NumInv == 2
MaxStrLen == 2
MaxDays == 18
MaxMatches == 2
MaxRows == 2
MaxQuotes == 2

Inv == 1..NumInv

(***************************************************************************)
(* Text helpers.                                                           *)
(***************************************************************************)
Chars == {"a", "b"}

RECURSIVE StrsOfLen(_)
StrsOfLen(n) ==
    IF n = 0 THEN {<<>>}
    ELSE {Append(s, c) : s \in StrsOfLen(n - 1), c \in Chars}

Strs == UNION {StrsOfLen(n) : n \in 0..MaxStrLen}

SeqsUpTo(S, n) == UNION {[1..k -> S] : k \in 0..n}

\* sub occurs in text as a contiguous run (Python's `sub in text`)
Contains(text, sub) ==
    \E k \in 0..(Len(text) - Len(sub)) :
        \A j \in 1..Len(sub) : text[k + j] = sub[j]

StartsWith(text, pre) ==
    /\ Len(pre) <= Len(text)
    /\ \A j \in 1..Len(pre) : text[j] = pre[j]

\* sep.join(items), items a sequence of tokens
RECURSIVE Join(_, _)
Join(sep, items) ==
    IF Len(items) = 0 THEN <<>>
    ELSE IF Len(items) = 1 THEN <<items[1]>>
    ELSE <<items[1], sep>> \o Join(sep, Tail(items))

\* str(n) of an integer, as one token
Str(n) == <<ToString(n)>>

\* lexicographic order of token sequences (string comparison), tokens
\* compared by the digit they stand for
DigitRank(t) ==
    CASE t = "-" -> 0
      [] t = "0" -> 1 [] t = "1" -> 2 [] t = "2" -> 3 [] t = "3" -> 4
      [] t = "4" -> 5 [] t = "5" -> 6 [] t = "6" -> 7 [] t = "7" -> 8
      [] t = "8" -> 9 [] t = "9" -> 10

RECURSIVE StrLess(_, _)
StrLess(s, t) ==
    IF Len(t) = 0 THEN FALSE
    ELSE IF Len(s) = 0 THEN TRUE
    ELSE IF DigitRank(s[1]) # DigitRank(t[1])
         THEN DigitRank(s[1]) < DigitRank(t[1])
    ELSE StrLess(Tail(s), Tail(t))

(***************************************************************************)
(* Results.  Every tool returns a str: json.dumps(data) on the success     *)
(* path, a formatted message on the failure paths.                         *)
(***************************************************************************)
\* json.dumps(data, indent=2): the serialised document stands for its data
json_dumps(data) == [status |-> "success", payload |-> data]

Failure(message) == [status |-> "failure", message |-> message]

IsSuccess(r) == r.status = "success"
IsFailure(r) == r.status = "failure"

(***************************************************************************)
(* Exceptions.  Everything the upstream client, the finance library or     *)
(* the normalising code can raise inside a try block.                      *)
(***************************************************************************)
HttpExceptions == {"Timeout", "ConnectionError", "HTTPError", "JSONDecodeError"}
YfExceptions == {"Timeout", "YFError"}
ExceptionClasses == HttpExceptions \cup YfExceptions \cup {"AttributeError"}

\* faulty variant of Catches: `except requests.RequestException`, which lets
\* decoding and attribute errors through
CatchesNoDecode(e) == e \in ExceptionClasses \ {"JSONDecodeError", "AttributeError"}
\* `except Exception as e` catches e
Catches(e) == e \in ExceptionClasses

\* str(e); the client's connection and status errors quote the URL
ExcText(e, req) ==
    CASE e = "Timeout" -> <<"Read timed out.">>
      [] e = "ConnectionError" -> <<"Max retries exceeded with url: ">> \o req.url
      [] e = "HTTPError" -> <<"404 Client Error: Not Found for url: ">> \o req.url
      [] e = "JSONDecodeError" -> <<"Expecting value: line 1 column 1 (char 0)">>
      [] e = "AttributeError" -> <<"'list' object has no attribute 'get'">>
      [] e = "YFError" -> <<"No data found, symbol may be delisted">>

Returns(value) == [raises |-> FALSE, value |-> value]
Raises(e) == [raises |-> TRUE, exc |-> e]

(***************************************************************************)
(* get_weather                                                             *)
(***************************************************************************)
get_weather_url(c) ==
    <<"https://api.open-meteo.com/v1/forecast?latitude=">> \o Str(c.latitude)
        \o <<"&longitude=">> \o Str(c.longitude)
        \o <<"&current=temperature_2m,relative_humidity_2m,apparent_temperature,precipitation,weather_code,wind_speed_10m,wind_direction_10m&timezone=auto">>

get_weather_request(c) == [endpoint |-> "forecast", url |-> get_weather_url(c)]

get_weather_try(c, up) ==
    IF up.ok THEN Returns(json_dumps(up.weather_data)) ELSE Raises(up.exc)

get_weather_except(c, text) == <<"Error fetching weather data: ">> \o text

(***************************************************************************)
(* get_weather_forecast                                                    *)
(***************************************************************************)
MaxForecastDays == 16

\* faulty variant of ClampDays: no clamp
ClampDaysOff(days) == days
\* `if days > 16: days = 16`
ClampDays(days) == IF days > MaxForecastDays THEN MaxForecastDays ELSE days

ForecastDaysParam == "&timezone=auto&forecast_days="

get_weather_forecast_url(c) ==
    <<"https://api.open-meteo.com/v1/forecast?latitude=">> \o Str(c.latitude)
        \o <<"&longitude=">> \o Str(c.longitude)
        \o <<"&daily=weather_code,temperature_2m_max,temperature_2m_min,precipitation_sum,precipitation_hours,wind_speed_10m_max">>
        \o <<ForecastDaysParam>> \o Str(ClampDays(c.days))

get_weather_forecast_request(c) ==
    [endpoint |-> "forecast", url |-> get_weather_forecast_url(c)]

get_weather_forecast_try(c, up) ==
    IF up.ok THEN Returns(json_dumps(up.forecast_data)) ELSE Raises(up.exc)

get_weather_forecast_except(c, text) == <<"Error fetching weather forecast: ">> \o text

(***************************************************************************)
(* get_location_coordinates                                                *)
(***************************************************************************)
get_location_coordinates_url(c) ==
    <<"https://geocoding-api.open-meteo.com/v1/search?name=">> \o c.location_name
        \o <<"&count=10&language=en&format=json">>

get_location_coordinates_request(c) ==
    [endpoint |-> "geocoding", url |-> get_location_coordinates_url(c)]

\* faulty variant of get_location_coordinates_try: indexes
\* location_data["results"] and fails when nothing was found
get_location_coordinates_try_results(c, up) ==
    IF ~up.ok THEN Raises(up.exc)
    ELSE IF "results" \notin up.location_data.keys \/ up.location_data.results = <<>>
         THEN Raises("AttributeError")
    ELSE Returns(json_dumps(up.location_data))
get_location_coordinates_try(c, up) ==
    IF up.ok THEN Returns(json_dumps(up.location_data)) ELSE Raises(up.exc)

get_location_coordinates_except(c, text) == <<"Error fetching location data: ">> \o text

(***************************************************************************)
(* get_stock_price.  The provider's info dict is the set of keys it        *)
(* carries; the value under key k is InfoValue(k).                         *)
(***************************************************************************)
InfoKeys ==
    {"shortName", "currentPrice", "regularMarketPrice", "currency", "dayHigh",
     "dayLow", "fiftyTwoWeekHigh", "fiftyTwoWeekLow", "marketCap", "volume",
     "averageVolume", "trailingPE", "dividendYield"}

InfoValue(k) == "info:" \o k

NA == "N/A"

\* info.get(key, default)
InfoGet(info, key, default) == IF key \in info THEN InfoValue(key) ELSE default

QuoteFields ==
    {"symbol", "name", "price", "currency", "day_high", "day_low",
     "52_week_high", "52_week_low", "market_cap", "volume", "average_volume",
     "pe_ratio", "dividend_yield"}

\* the provider key a plain output field is read from, and its default
InfoKeyOf(f) ==
    CASE f = "name" -> "shortName"
      [] f = "currency" -> "currency"
      [] f = "day_high" -> "dayHigh"
      [] f = "day_low" -> "dayLow"
      [] f = "52_week_high" -> "fiftyTwoWeekHigh"
      [] f = "52_week_low" -> "fiftyTwoWeekLow"
      [] f = "market_cap" -> "marketCap"
      [] f = "volume" -> "volume"
      [] f = "average_volume" -> "averageVolume"
      [] f = "pe_ratio" -> "trailingPE"
      [] f = "dividend_yield" -> "dividendYield"

DefaultOf(f) == IF f = "currency" THEN "USD" ELSE NA

\* faulty variant of PriceOf: the two keys in the other order
PriceOfRegularFirst(info) ==
    InfoGet(info, "regularMarketPrice", InfoGet(info, "currentPrice", NA))
PriceOf(info) ==
    InfoGet(info, "currentPrice", InfoGet(info, "regularMarketPrice", NA))

\* faulty variant of FieldOf: "" for a missing key
FieldOfEmptyDefault(info, f) == InfoGet(info, InfoKeyOf(f), "")
FieldOf(info, f) == InfoGet(info, InfoKeyOf(f), DefaultOf(f))

StockQuote(symbol, info) ==
    [f \in QuoteFields |->
        CASE f = "symbol" -> symbol
          [] f = "price" -> PriceOf(info)
          [] OTHER -> FieldOf(info, f)]

get_stock_price_request(c) == [endpoint |-> "yf.info", symbol |-> c.symbol]

get_stock_price_try(c, up) ==
    IF up.ok THEN Returns(json_dumps(StockQuote(c.symbol, up.info)))
    ELSE Raises(up.exc)

get_stock_price_except(c, text) ==
    <<"Error fetching stock data for ">> \o c.symbol \o <<": ">> \o text

(***************************************************************************)
(* get_stock_history.  The provider's frame is the sequence of its row     *)
(* timestamps; row n carries RowValue(column, n).                          *)
(***************************************************************************)
valid_periods == <<"1d", "5d", "1mo", "3mo", "6mo", "1y", "2y", "5y", "max">>

InSeq(x, seq) == \E k \in 1..Len(seq) : seq[k] = x

\* faulty variant of PeriodIsValid: one more period let through
PeriodIsValidLoose(period) == InSeq(period, valid_periods) \/ period = "1w"
PeriodIsValid(period) == InSeq(period, valid_periods)

InvalidPeriodMessage(period) ==
    <<"Invalid period: ", period, ". Valid options are: ">> \o Join(", ", valid_periods)

RowValue(column, n) == column \o ToString(n)

Digit(n) == ToString(n % 10)

\* faulty variant of Pad2: no zero padding
Pad2Unpadded(n) == IF n < 10 THEN <<Digit(n)>> ELSE <<Digit(n \div 10), Digit(n)>>
\* %Y: four digits, %m and %d: two digits, zero padded
Pad2(n) == <<Digit(n \div 10), Digit(n)>>
Pad4(n) == <<Digit(n \div 1000), Digit(n \div 100), Digit(n \div 10), Digit(n)>>

\* date.strftime('%Y-%m-%d')
strftime(ts) == Pad4(ts.year) \o <<"-">> \o Pad2(ts.month) \o <<"-">> \o Pad2(ts.day)

HistoryPoint(ts, n) ==
    [date |-> strftime(ts),
     open |-> RowValue("Open", n),
     high |-> RowValue("High", n),
     low |-> RowValue("Low", n),
     close |-> RowValue("Close", n),
     volume |-> RowValue("Volume", n)]

\* the for loop over history.iterrows(): data.append(...) row by row
RECURSIVE HistoryLoop(_, _, _)
HistoryLoop(rows, n, data) ==
    IF n > Len(rows) THEN data
    ELSE HistoryLoop(rows, n + 1, Append(data, HistoryPoint(rows[n], n)))

get_stock_history_request(c) ==
    [endpoint |-> "yf.history", symbol |-> c.symbol, period |-> c.period]

get_stock_history_try(c, up) ==
    IF up.ok THEN Returns(json_dumps(HistoryLoop(up.history, 1, <<>>)))
    ELSE Raises(up.exc)

\* faulty variant of get_stock_history_except: the symbol left out
get_stock_history_except_no_symbol(c, text) ==
    <<"Error fetching historical stock data: ">> \o text
get_stock_history_except(c, text) ==
    <<"Error fetching historical stock data for ">> \o c.symbol \o <<": ">> \o text

(***************************************************************************)
(* search_stocks.  The decoded body is a JSON object, given by its key set *)
(* and its "quotes" list, or some other JSON value.  A quote is the set   *)
(* of keys it carries; quote n holds QuoteValue(k, n) under key k.         *)
(***************************************************************************)
QuoteKeys == {"symbol", "longname", "shortname", "exchange", "quoteType"}

QuoteValue(k, n) == k \o ToString(n)

search_stocks_url(c) ==
    <<"https://query2.finance.yahoo.com/v1/finance/search?q=">> \o c.query
        \o <<"&quotesCount=10&newsCount=0">>

search_stocks_request(c) == [endpoint |-> "yahoo.search", url |-> search_stocks_url(c)]

\* quote.get(k, default) for quote n
QuoteGet(quote, n, k, default) == IF k \in quote THEN QuoteValue(k, n) ELSE default

StockMatch(quote, n) ==
    [symbol |-> QuoteGet(quote, n, "symbol", ""),
     name |-> QuoteGet(quote, n, "longname", QuoteGet(quote, n, "shortname", "")),
     exchange |-> QuoteGet(quote, n, "exchange", ""),
     type |-> QuoteGet(quote, n, "quoteType", "")]

\* faulty variant of KeepsQuote: every quote kept
KeepsQuoteAlways(quote) == TRUE
\* `if "symbol" in quote`
KeepsQuote(quote) == "symbol" \in quote

\* the for loop over quotes: results.append(...) for the quotes kept
RECURSIVE SearchLoop(_, _, _)
SearchLoop(quotes, n, results) ==
    IF n > Len(quotes) THEN results
    ELSE SearchLoop(quotes, n + 1,
                    IF KeepsQuote(quotes[n])
                    THEN Append(results, StockMatch(quotes[n], n))
                    ELSE results)

\* search_results.get("quotes", [])
QuotesOf(body) == IF "quotes" \in body.keys THEN body.quotes ELSE <<>>

search_stocks_try(c, up, results) ==
    IF ~up.ok THEN Raises(up.exc)
    ELSE IF up.search_results.shape # "object" THEN Raises("AttributeError")
    ELSE Returns(json_dumps(SearchLoop(QuotesOf(up.search_results), 1, results)))

search_stocks_except(c, text) == <<"Error searching for stocks: ">> \o text

(***************************************************************************)
(* Inputs: what the host may pass to a tool and what the upstream may      *)
(* answer to the call the tool makes.                                      *)
(***************************************************************************)
NoCall == [tool |-> "none"]
NoUpstream == [ok |-> FALSE, exc |-> "none"]

Failing(excs) == {[ok |-> FALSE, exc |-> e] : e \in excs}

GeoMatches == {[name |-> <<"a">>, latitude |-> 48, longitude |-> 2],
               [name |-> <<"b">>, latitude |-> -33, longitude |-> 151]}

\* a geocoding document: with a "results" list, or (nothing found) without
GeoDocs(n) ==
    {[keys |-> {"generationtime_ms"}, results |-> <<>>]}
        \cup {[keys |-> {"generationtime_ms", "results"}, results |-> r] :
                r \in SeqsUpTo(GeoMatches, n)}

Timestamps == [year : {2024}, month : {9, 10}, day : {9, 10}]

SearchBodies(n) ==
    {[shape |-> "array"], [shape |-> "object", keys |-> {}, quotes |-> <<>>]}
        \cup {[shape |-> "object", keys |-> {"quotes"}, quotes |-> q] :
                q \in SeqsUpTo(SUBSET QuoteKeys, n)}

\* per tool: the argument records the host may pass, the answers the upstream
\* may give
get_weather_calls(P) ==
    {[tool |-> "get_weather", latitude |-> la, longitude |-> 2] : la \in P.latitudes}
get_weather_answers(P) ==
    {[ok |-> TRUE, weather_data |-> d] : d \in P.docs} \cup Failing(P.http)

get_weather_forecast_calls(P) ==
    {[tool |-> "get_weather_forecast", latitude |-> la, longitude |-> 2, days |-> d] :
        la \in P.latitudes, d \in P.days}
get_weather_forecast_answers(P) ==
    {[ok |-> TRUE, forecast_data |-> d] : d \in P.docs} \cup Failing(P.http)

get_location_coordinates_calls(P) ==
    {[tool |-> "get_location_coordinates", location_name |-> s] : s \in P.strs}
get_location_coordinates_answers(P) ==
    {[ok |-> TRUE, location_data |-> g] : g \in P.geo} \cup Failing(P.http)

get_stock_price_calls(P) ==
    {[tool |-> "get_stock_price", symbol |-> s] : s \in P.strs}
get_stock_price_answers(P) ==
    {[ok |-> TRUE, info |-> x] : x \in P.infos} \cup Failing(P.yf)

get_stock_history_calls(P) ==
    {[tool |-> "get_stock_history", symbol |-> s, period |-> p] :
        s \in P.strs, p \in P.periods}
get_stock_history_answers(P) ==
    {[ok |-> TRUE, history |-> h] : h \in P.histories} \cup Failing(P.yf)

search_stocks_calls(P) ==
    {[tool |-> "search_stocks", query |-> s] : s \in P.strs}
search_stocks_answers(P) ==
    {[ok |-> TRUE, search_results |-> b] : b \in P.bodies} \cup Failing(P.http)

Pairs(calls, answers) == {[call |-> c, up |-> u] : c \in calls, u \in answers}

InvocationsOver(P) ==
    Pairs(get_weather_calls(P), get_weather_answers(P))
    \cup Pairs(get_weather_forecast_calls(P), get_weather_forecast_answers(P))
    \cup Pairs(get_location_coordinates_calls(P), get_location_coordinates_answers(P))
    \cup Pairs(get_stock_price_calls(P), get_stock_price_answers(P))
    \cup Pairs(get_stock_history_calls(P), get_stock_history_answers(P))
    \cup Pairs(search_stocks_calls(P), search_stocks_answers(P))

AllInputs ==
    [latitudes |-> {48, -33},
     days |-> (-1)..MaxDays,
     docs |-> {"document 1", "document 2"},
     strs |-> Strs,
     geo |-> GeoDocs(MaxMatches),
     infos |-> SUBSET InfoKeys,
     periods |-> {valid_periods[k] : k \in 1..Len(valid_periods)} \cup {"1w", "1M"},
     histories |-> SeqsUpTo(Timestamps, MaxRows),
     bodies |-> SearchBodies(MaxQuotes),
     http |-> HttpExceptions,
     yf |-> YfExceptions]

\* the inputs of the runs with several invocations in flight
FewInputs ==
    [latitudes |-> {48},
     days |-> {17},
     docs |-> {"document 1"},
     strs |-> {<<"a">>},
     geo |-> GeoDocs(0),
     infos |-> {{"currentPrice"}},
     periods |-> {"1mo", "1w"},
     histories |-> SeqsUpTo({[year |-> 2024, month |-> 9, day |-> 9]}, 1),
     bodies |-> {[shape |-> "array"]}
                  \cup {[shape |-> "object", keys |-> {"quotes"}, quotes |-> q] :
                          q \in {<<{"symbol"}>>, <<{"symbol", "longname"}>>}},
     http |-> {"HTTPError"},
     yf |-> {"YFError"}]

(***************************************************************************)
(* State.  One slot per invocation the host makes:                         *)
(*   call      the tool and the arguments of the invocation                *)
(*   upstream  what the upstream answers to the invocation's call          *)
(*   pc        "ready" (invoked), "waiting" (upstream call issued),        *)
(*             "done" (returned or raised), "idle" (slot not used)         *)
(*   sent      the upstream calls the invocation has issued                *)
(*   result    the values the invocation has returned to the host          *)
(*   raised    an exception left the handler                               *)
(*   before    the invocations that had ended when this one began          *)
(***************************************************************************)
\* the slots in `slots` invoked with f[slot], the others unused
InitSlots(slots, f) ==
    /\ call = [i \in Inv |-> IF i \in slots THEN f[i].call ELSE NoCall]
    /\ upstream = [i \in Inv |-> IF i \in slots THEN f[i].up ELSE NoUpstream]
    /\ pc = [i \in Inv |-> IF i \in slots THEN "ready" ELSE "idle"]
    /\ sent = [i \in Inv |-> <<>>]
    /\ result = [i \in Inv |-> <<>>]
    /\ raised = [i \in Inv |-> FALSE]
    /\ before = [i \in Inv |-> {}]

InitOne(c, u) == InitSlots({1}, [i \in {1} |-> [call |-> c, up |-> u]])

\* one invocation, any input
Init ==
    \/ \E c \in get_weather_calls(AllInputs), u \in get_weather_answers(AllInputs) :
          InitOne(c, u)
    \/ \E c \in get_weather_forecast_calls(AllInputs),
          u \in get_weather_forecast_answers(AllInputs) : InitOne(c, u)
    \/ \E c \in get_location_coordinates_calls(AllInputs),
          u \in get_location_coordinates_answers(AllInputs) : InitOne(c, u)
    \/ \E c \in get_stock_price_calls(AllInputs),
          u \in get_stock_price_answers(AllInputs) : InitOne(c, u)
    \/ \E c \in get_stock_history_calls(AllInputs),
          u \in get_stock_history_answers(AllInputs) : InitOne(c, u)
    \/ \E c \in search_stocks_calls(AllInputs),
          u \in search_stocks_answers(AllInputs) : InitOne(c, u)

\* every slot invoked
InitConc == \E f \in [Inv -> InvocationsOver(FewInputs)] : InitSlots(Inv, f)

\* the handler is entered
Begin(i) == before' = [before EXCEPT ![i] = {j \in Inv : pc[j] = "done"}]

\* the handler issues its upstream call and waits for the answer
Issue(i, req) ==
    /\ Begin(i)
    /\ sent' = [sent EXCEPT ![i] = Append(@, req)]
    /\ pc' = [pc EXCEPT ![i] = "waiting"]
    /\ UNCHANGED <<call, upstream, result, raised>>

\* `return value`
Return(i, value) ==
    /\ result' = [result EXCEPT ![i] = Append(@, value)]
    /\ pc' = [pc EXCEPT ![i] = "done"]
    /\ UNCHANGED <<call, upstream, sent, raised>>

\* the exception leaves the handler
Propagate(i) ==
    /\ raised' = [raised EXCEPT ![i] = TRUE]
    /\ pc' = [pc EXCEPT ![i] = "done"]
    /\ UNCHANGED <<call, upstream, sent, result>>

\* the message the except clause of c's tool formats from str(e)
ExceptMessage(c, text) ==
    CASE c.tool = "get_weather" -> get_weather_except(c, text)
      [] c.tool = "get_weather_forecast" -> get_weather_forecast_except(c, text)
      [] c.tool = "get_location_coordinates" -> get_location_coordinates_except(c, text)
      [] c.tool = "get_stock_price" -> get_stock_price_except(c, text)
      [] c.tool = "get_stock_history" -> get_stock_history_except(c, text)
      [] c.tool = "search_stocks" -> search_stocks_except(c, text)

\* the end of a try block: its return value, or the except clause's message
Finish(i, outcome) ==
    /\ UNCHANGED before
    /\ IF ~outcome.raises THEN Return(i, outcome.value)
       ELSE IF Catches(outcome.exc)
            THEN Return(i, Failure(ExceptMessage(call[i], ExcText(outcome.exc, sent[i][1]))))
       ELSE Propagate(i)

\* `response = requests.get(url)`: the answer to the invocation's own call
ResponseOf(i) == upstream[i]

get_weather_call(i) ==
    /\ pc[i] = "ready" /\ call[i].tool = "get_weather"
    /\ Issue(i, get_weather_request(call[i]))

get_weather_return(i) ==
    /\ pc[i] = "waiting" /\ call[i].tool = "get_weather"
    /\ Finish(i, get_weather_try(call[i], ResponseOf(i)))

get_weather_forecast_call(i) ==
    /\ pc[i] = "ready" /\ call[i].tool = "get_weather_forecast"
    /\ Issue(i, get_weather_forecast_request(call[i]))

get_weather_forecast_return(i) ==
    /\ pc[i] = "waiting" /\ call[i].tool = "get_weather_forecast"
    /\ Finish(i, get_weather_forecast_try(call[i], ResponseOf(i)))

get_location_coordinates_call(i) ==
    /\ pc[i] = "ready" /\ call[i].tool = "get_location_coordinates"
    /\ Issue(i, get_location_coordinates_request(call[i]))

get_location_coordinates_return(i) ==
    /\ pc[i] = "waiting" /\ call[i].tool = "get_location_coordinates"
    /\ Finish(i, get_location_coordinates_try(call[i], ResponseOf(i)))

get_stock_price_call(i) ==
    /\ pc[i] = "ready" /\ call[i].tool = "get_stock_price"
    /\ Issue(i, get_stock_price_request(call[i]))

get_stock_price_return(i) ==
    /\ pc[i] = "waiting" /\ call[i].tool = "get_stock_price"
    /\ Finish(i, get_stock_price_try(call[i], ResponseOf(i)))

get_stock_history_call(i) ==
    /\ pc[i] = "ready" /\ call[i].tool = "get_stock_history"
    /\ IF ~PeriodIsValid(call[i].period)
       THEN Begin(i) /\ Return(i, Failure(InvalidPeriodMessage(call[i].period)))
       ELSE Issue(i, get_stock_history_request(call[i]))

get_stock_history_return(i) ==
    /\ pc[i] = "waiting" /\ call[i].tool = "get_stock_history"
    /\ Finish(i, get_stock_history_try(call[i], ResponseOf(i)))

\* faulty variant of FreshResults: one module-level list, still holding what
\* an earlier search appended
SharedResults(i) ==
    IF \E j \in Inv : j # i /\ call[j].tool = "search_stocks" /\ pc[j] = "done"
                      /\ result[j] # <<>> /\ IsSuccess(result[j][1])
    THEN LET j == CHOOSE j \in Inv : j # i /\ call[j].tool = "search_stocks"
                      /\ pc[j] = "done" /\ result[j] # <<>> /\ IsSuccess(result[j][1])
         IN result[j][1].payload
    ELSE <<>>
\* `results = []`: a list of the invocation's own
FreshResults(i) == <<>>

search_stocks_call(i) ==
    /\ pc[i] = "ready" /\ call[i].tool = "search_stocks"
    /\ Issue(i, search_stocks_request(call[i]))

search_stocks_return(i) ==
    /\ pc[i] = "waiting" /\ call[i].tool = "search_stocks"
    /\ Finish(i, search_stocks_try(call[i], ResponseOf(i), FreshResults(i)))

\* a step of invocation i
Step(i) ==
    \/ get_weather_call(i)
    \/ get_weather_return(i)
    \/ get_weather_forecast_call(i)
    \/ get_weather_forecast_return(i)
    \/ get_location_coordinates_call(i)
    \/ get_location_coordinates_return(i)
    \/ get_stock_price_call(i)
    \/ get_stock_price_return(i)
    \/ get_stock_history_call(i)
    \/ get_stock_history_return(i)
    \/ search_stocks_call(i)
    \/ search_stocks_return(i)

Next == \E i \in Inv : Step(i)

Spec == Init /\ [][Next]_vars

SpecConc == InitConc /\ [][Next]_vars

(***************************************************************************)
(* Properties.                                                             *)
(***************************************************************************)
Done(i) == pc[i] = "done"
Called(i) == pc[i] \in {"waiting", "done"}
Returned(i) == result[i][1]
IsTool(i, t) == call[i].tool = t
\* the upstream call of invocation i was issued and failed
UpstreamFailed(i) == sent[i] # <<>> /\ ~upstream[i].ok
Min(a, b) == IF a < b THEN a ELSE b
Last(seq) == seq[Len(seq)]

\* C1: get_stock_history with a period outside {1d,5d,1mo,3mo,6mo,1y,2y,5y,max}
\* never issues an upstream call and returns the validation failure; with a
\* period in the set, the one history call it issues carries exactly that period.
PeriodSet == {"1d", "5d", "1mo", "3mo", "6mo", "1y", "2y", "5y", "max"}

C1_PeriodValidation ==
    \A i \in Inv : IsTool(i, "get_stock_history") =>
        IF call[i].period \notin PeriodSet
        THEN /\ sent[i] = <<>>
             /\ pc[i] # "waiting"
             /\ Done(i) => /\ IsFailure(Returned(i))
                           /\ StartsWith(Returned(i).message,
                                         <<"Invalid period: ", call[i].period>>)
        ELSE Called(i) =>
                /\ Len(sent[i]) = 1
                /\ sent[i][1].endpoint = "yf.history"
                /\ sent[i][1].period = call[i].period
                /\ sent[i][1].symbol = call[i].symbol

C1_Witness ==
    \E i \in Inv : /\ IsTool(i, "get_stock_history") /\ call[i].period = "1w"
                   /\ call[i].symbol = <<"a">> /\ Done(i)

\* C2: for days >= 1 the forecast_days value get_weather_forecast sends upstream
\* is min(days, 16): 16 for days > 16, days itself for 1 <= days <= 16.
C2_ForecastDaysClamped ==
    \A i \in Inv : (IsTool(i, "get_weather_forecast") /\ Called(i) /\ call[i].days >= 1) =>
        LET url == sent[i][1].url IN
        /\ Len(sent[i]) = 1
        /\ url[Len(url) - 1] = "&timezone=auto&forecast_days="
        /\ Last(url) = ToString(Min(call[i].days, 16))
        /\ Min(call[i].days, 16) \in 1..16

C2_Witness ==
    \E i \in Inv : IsTool(i, "get_weather_forecast") /\ Called(i) /\ call[i].days = 17

\* the symbol, location name or query of an invocation (the weather tools
\* take none)
Subject(c) ==
    CASE c.tool = "get_location_coordinates" -> c.location_name
      [] c.tool \in {"get_stock_price", "get_stock_history"} -> c.symbol
      [] c.tool = "search_stocks" -> c.query
      [] OTHER -> <<>>

ErrorTextOf(i) == ExcText(upstream[i].exc, sent[i][1])

C4_OneCallOneResult ==
    \A i \in Inv :
        /\ Len(sent[i]) <= 1
        /\ Len(result[i]) <= 1
        /\ ~raised[i]
        /\ Done(i) => Len(result[i]) = 1
        /\ pc[i] \in {"ready", "waiting"} => ENABLED Step(i)
        /\ pc[i] # "done" => result[i] = <<>>
        /\ (Done(i) /\ UpstreamFailed(i)) => IsFailure(Returned(i))

C4_Witness ==
    \E i \in Inv : /\ Done(i) /\ UpstreamFailed(i)
                   /\ upstream[i].exc = "JSONDecodeError" /\ IsTool(i, "search_stocks")

\* the result an invocation returns when it is the only one ever run: a
\* function of its own arguments and its own upstream answer
AloneOutcome(c, up) ==
    CASE c.tool = "get_weather" -> get_weather_try(c, up)
      [] c.tool = "get_weather_forecast" -> get_weather_forecast_try(c, up)
      [] c.tool = "get_location_coordinates" -> get_location_coordinates_try(c, up)
      [] c.tool = "get_stock_price" -> get_stock_price_try(c, up)
      [] c.tool = "get_stock_history" -> get_stock_history_try(c, up)
      [] c.tool = "search_stocks" -> search_stocks_try(c, up, <<>>)

AloneRequest(c) ==
    CASE c.tool = "get_weather" -> get_weather_request(c)
      [] c.tool = "get_weather_forecast" -> get_weather_forecast_request(c)
      [] c.tool = "get_location_coordinates" -> get_location_coordinates_request(c)
      [] c.tool = "get_stock_price" -> get_stock_price_request(c)
      [] c.tool = "get_stock_history" -> get_stock_history_request(c)
      [] c.tool = "search_stocks" -> search_stocks_request(c)

Alone(c, up) ==
    IF c.tool = "get_stock_history" /\ c.period \notin PeriodSet
    THEN Failure(InvalidPeriodMessage(c.period))
    ELSE LET o == AloneOutcome(c, up) IN
         IF o.raises THEN Failure(ExceptMessage(c, ExcText(o.exc, AloneRequest(c))))
         ELSE o.value

\* C5: whatever other invocations run before it or interleaved with it, an
\* invocation issues the call and returns the result it would when run alone,
\* which depend only on its own arguments and its own upstream answer.
C5_Independent ==
    \A i \in Inv :
        /\ Called(i) =>
              sent[i] = IF IsTool(i, "get_stock_history") /\ call[i].period \notin PeriodSet
                        THEN <<>> ELSE <<AloneRequest(call[i])>>
        /\ Done(i) => /\ ~raised[i]
                      /\ result[i] = <<Alone(call[i], upstream[i])>>

\* a search that began after another search had ended in failure, and succeeded
C5_Witness ==
    \E i, j \in Inv :
        /\ j \in before[i] /\ IsFailure(Returned(j))
        /\ IsTool(j, "search_stocks") /\ IsTool(i, "search_stocks")
        /\ Done(i) /\ IsSuccess(Returned(i)) /\ Returned(i).payload # <<>>

\* the quotes of a decoded search body
UpstreamQuotes(body) == IF "quotes" \in body.keys THEN body.quotes ELSE <<>>

\* the positions of the upstream quotes that carry a symbol
WithSymbol(quotes) == {n \in 1..Len(quotes) : "symbol" \in quotes[n]}

\* the k-th of them
NthWithSymbol(quotes, k) ==
    CHOOSE n \in WithSymbol(quotes) :
        Cardinality({m \in WithSymbol(quotes) : m <= n}) = k

\* C6: a successful search_stocks returns one entry per upstream quote that
\* carries a symbol, in upstream order, none for the others; each entry has the
\* keys symbol, name, exchange, type, name being longname, else shortname, else
\* "", and a missing exchange or type being "".
C6_SearchEntries ==
    \A i \in Inv : (IsTool(i, "search_stocks") /\ Done(i) /\ IsSuccess(Returned(i))) =>
        LET quotes == UpstreamQuotes(upstream[i].search_results)
            out == Returned(i).payload
        IN /\ Len(out) = Cardinality(WithSymbol(quotes))
           /\ \A k \in 1..Len(out) :
                LET n == NthWithSymbol(quotes, k)
                    q == quotes[n]
                IN /\ DOMAIN out[k] = {"symbol", "name", "exchange", "type"}
                   /\ out[k].symbol = QuoteValue("symbol", n)
                   /\ out[k].name = IF "longname" \in q THEN QuoteValue("longname", n)
                                    ELSE IF "shortname" \in q
                                         THEN QuoteValue("shortname", n)
                                    ELSE ""
                   /\ out[k].exchange = IF "exchange" \in q
                                        THEN QuoteValue("exchange", n) ELSE ""
                   /\ out[k].type = IF "quoteType" \in q
                                    THEN QuoteValue("quoteType", n) ELSE ""

C6_Witness ==
    \E i \in Inv :
        /\ IsTool(i, "search_stocks") /\ Done(i) /\ IsSuccess(Returned(i))
        /\ upstream[i].search_results.quotes = <<{"longname", "exchange"}, {"symbol", "shortname"}>>
        /\ Len(Returned(i).payload) = 1

\* C7: the price get_stock_price returns is currentPrice when the provider
\* supplies it, else regularMarketPrice when it supplies that, else "N/A".
C7_PriceFallback ==
    \A i \in Inv : (IsTool(i, "get_stock_price") /\ Done(i) /\ upstream[i].ok) =>
        /\ IsSuccess(Returned(i))
        /\ Returned(i).payload["price"] =
              IF "currentPrice" \in upstream[i].info THEN InfoValue("currentPrice")
              ELSE IF "regularMarketPrice" \in upstream[i].info
                   THEN InfoValue("regularMarketPrice")
              ELSE "N/A"

C7_Witness ==
    \E i \in Inv :
        /\ IsTool(i, "get_stock_price") /\ Done(i) /\ upstream[i].ok
        /\ "currentPrice" \notin upstream[i].info
        /\ "regularMarketPrice" \in upstream[i].info
        /\ Returned(i).payload["price"] = InfoValue("regularMarketPrice")

PlainFields == QuoteFields \ {"symbol", "price"}

\* C8 as stated: whatever the provider omits, get_stock_price succeeds, every
\* omitted field other than symbol and price is "N/A" and every supplied field
\* carries the provider's value.
C8_OmittedIsNA ==
    \A i \in Inv : (IsTool(i, "get_stock_price") /\ Done(i) /\ upstream[i].ok) =>
        /\ IsSuccess(Returned(i))
        /\ \A f \in PlainFields :
              Returned(i).payload[f] =
                  IF InfoKeyOf(f) \in upstream[i].info THEN InfoValue(InfoKeyOf(f))
                  ELSE "N/A"

\* C8 amended: as stated, except that an omitted currency is "USD".
C8_OmittedIsNAOrUSD ==
    \A i \in Inv : (IsTool(i, "get_stock_price") /\ Done(i) /\ upstream[i].ok) =>
        /\ IsSuccess(Returned(i))
        /\ DOMAIN Returned(i).payload = QuoteFields
        /\ Returned(i).payload["symbol"] = call[i].symbol
        /\ \A f \in PlainFields :
              Returned(i).payload[f] =
                  IF InfoKeyOf(f) \in upstream[i].info THEN InfoValue(InfoKeyOf(f))
                  ELSE IF f = "currency" THEN "USD"
                  ELSE "N/A"

C8_Witness ==
    \E i \in Inv :
        /\ IsTool(i, "get_stock_price") /\ Done(i) /\ upstream[i].ok
        /\ upstream[i].info = {"shortName", "dayHigh"}
        /\ Returned(i).payload["currency"] = "USD"
        /\ Returned(i).payload["volume"] = "N/A"

\* a geocoding document with no match: an empty result list, or none
ZeroMatches(doc) == "results" \notin doc.keys \/ doc.results = <<>>

\* C9 as stated: on a successful geocoding answer with zero matches the tool
\* returns a success payload that contains an empty list; it returns a failure
\* only when the upstream call fails.
C9_EmptyListOnZeroMatches ==
    \A i \in Inv : (IsTool(i, "get_location_coordinates") /\ Done(i)) =>
        /\ (upstream[i].ok /\ ZeroMatches(upstream[i].location_data)) =>
              /\ IsSuccess(Returned(i))
              /\ "results" \in Returned(i).payload.keys
              /\ Returned(i).payload.results = <<>>
        /\ IsFailure(Returned(i)) => ~upstream[i].ok

\* C9 amended: on a successful geocoding answer, zero matches included, the
\* tool returns the upstream document unchanged as its success payload (so the
\* payload holds an empty list exactly when the upstream document does); it
\* returns a failure exactly when the upstream call fails.
C9_ZeroMatchesPassThrough ==
    \A i \in Inv : (IsTool(i, "get_location_coordinates") /\ Done(i)) =>
        /\ upstream[i].ok =>
              /\ IsSuccess(Returned(i))
              /\ Returned(i).payload = upstream[i].location_data
        /\ IsFailure(Returned(i)) <=> ~upstream[i].ok

C9_Witness ==
    \E i \in Inv :
        /\ IsTool(i, "get_location_coordinates") /\ Done(i) /\ upstream[i].ok
        /\ "results" \in upstream[i].location_data.keys
        /\ upstream[i].location_data.results = <<>>
        /\ IsSuccess(Returned(i))

\* the provider's order of row dates
TsLess(a, b) ==
    \/ a.year < b.year
    \/ a.year = b.year /\ a.month < b.month
    \/ a.year = b.year /\ a.month = b.month /\ a.day < b.day

Dates(i) == [k \in 1..Len(Returned(i).payload) |-> Returned(i).payload[k].date]

HistorySucceeded(i) ==
    IsTool(i, "get_stock_history") /\ Done(i) /\ IsSuccess(Returned(i))

\* C10 as stated: every successful get_stock_history result has one point per
\* provider row and strictly increasing dates, whatever rows the provider
\* returns.
C10_DatesIncreasing ==
    \A i \in Inv : HistorySucceeded(i) =>
        /\ Len(Returned(i).payload) = Len(upstream[i].history)
        /\ \A k, l \in 1..Len(Returned(i).payload) :
              k < l => StrLess(Dates(i)[k], Dates(i)[l])

\* C10 amended: every successful get_stock_history result has one point per
\* provider row, in provider order, dated YYYY-MM-DD; the dates compare as the
\* rows' days do, so they are strictly increasing exactly when the provider's
\* rows are on strictly increasing days.
C10_DatesInProviderOrder ==
    \A i \in Inv : HistorySucceeded(i) =>
        LET rows == upstream[i].history IN
        /\ Len(Returned(i).payload) = Len(rows)
        /\ \A k \in 1..Len(rows) :
              /\ Len(Dates(i)[k]) = 10
              /\ Dates(i)[k][5] = "-" /\ Dates(i)[k][8] = "-"
              /\ Returned(i).payload[k].close = RowValue("Close", k)
        /\ \A k, l \in 1..Len(rows) :
              TsLess(rows[k], rows[l]) <=> StrLess(Dates(i)[k], Dates(i)[l])
        /\ (\A k, l \in 1..Len(rows) : k < l => StrLess(Dates(i)[k], Dates(i)[l]))
              <=> (\A k, l \in 1..Len(rows) : k < l => TsLess(rows[k], rows[l]))

C10_Witness ==
    \E i \in Inv :
        /\ HistorySucceeded(i)
        /\ upstream[i].history = <<[year |-> 2024, month |-> 9, day |-> 10],
                                   [year |-> 2024, month |-> 10, day |-> 9]>>
        /\ StrLess(Dates(i)[1], Dates(i)[2])

====
